---- MODULE Spec2Model ----
(***************************************************************************)
(* AudioStreamer (src/static/js/audio/audio-recorder.js): PCM ingestion,   *)
(* the playback scheduler, the completion callback and the coordination of *)
(* the speech recognition engine, as one state machine.  Every JavaScript  *)
(* handler runs to completion, so every handler is one action; resume(),   *)
(* which waits for a suspended context, is two: the call up to its await   *)
(* and the rest once the context runs.                                     *)
(*                                                                         *)
(* Time is counted in ticks of 50 ms and measured from the present: every  *)
(* stored time (scheduledTime, the due time of a timer, the start and end  *)
(* of a source) is kept as its distance from context.currentTime, which so *)
(* reads 0, and a tick of the audio clock lowers each of them by one.  A   *)
(* time that is already past is kept as 0: the code only compares stored   *)
(* times with the clock (max(scheduledTime, currentTime), due or not due,  *)
(* ended or not ended), and all past times compare alike.                  *)
(* A normalised sample int16 / 32768 is the pair <<int16, 32768>>.         *)
(*                                                                         *)
(* The WebSocket relay of the server (src/index.js, handleWebSocket) is a  *)
(* second state machine over its own variables; each specification moves  *)
(* one of the two and leaves the other in its initial state.               *)
(***************************************************************************)
EXTENDS Integers, Sequences, FiniteSets

VARIABLES
    audioQueue,             \* this.audioQueue: frames waiting to be scheduled
    processingBuffer,       \* this.processingBuffer: samples not yet a frame
    isPlaying,              \* this.isPlaying
    isStreamComplete,       \* this.isStreamComplete
    scheduledTime,          \* this.scheduledTime
    endOfQueueAudioSource,  \* this.endOfQueueAudioSource: a source id, 0 is null
    gainNode,               \* this.gainNode: the id of the current gain stage
    isRecognitionActive,    \* this.isRecognitionActive
    sources,                \* buffer sources started and not yet ended
    nextSourceId,           \* identity of the next createBufferSource()
    gainConnected,          \* gain stages connected to context.destination
    schedTimers,            \* pending setTimeout(scheduleNextBuffer): due times
    swapTimers,             \* pending gain swap timers of stop(): due times
    restartTimers,          \* pending restart timers of restartRecognition()
    engine,                 \* the recognition engine: idle, active or ending
    ingested,               \* history: samples ingested since the last stop()
    dequeued,               \* history: frames dequeued since the last stop()
    onCompleteCount,        \* history: invocations of this.onComplete
    startCalls,             \* history: invocations of speechRecognizer.start()
    uncaught,               \* history: an exception escaped a handler
    calls,                  \* history: calls of addPCM16/complete/stop/resume
    finalFrame,             \* history: the frame flushed by the last complete():
                            \* queued, a source, played; dropped by stop(),
                            \* superseded by later samples or complete()
    suppressed,             \* history: restart paths that found recognition active
    episode,                \* history: the response to the last engine error
    speechRecognizer,       \* this.speechRecognizer is an engine, not null
    contextState,           \* this.context.state: running or suspended
    resumePending,          \* a resume() waits at await this.context.resume()
    clientWs,               \* index.js: clientWs.readyState
    targetWs,               \* index.js: targetWs.readyState
    pendingMessages,        \* index.js: pendingMessages
    clientSent,             \* history: messages clientWs.onmessage received
    targetReceived,         \* history: messages passed to targetWs.send
    targetSent,             \* history: messages targetWs.onmessage received
    clientReceived,         \* history: messages passed to clientWs.send
    flushed                 \* history: messages sent by targetWs.onopen

streamerVars ==
    <<audioQueue, processingBuffer, isPlaying, isStreamComplete,
      scheduledTime, endOfQueueAudioSource, gainNode, isRecognitionActive,
      sources, nextSourceId, gainConnected, schedTimers,
      swapTimers, restartTimers, engine, ingested, dequeued,
      onCompleteCount, startCalls, uncaught, calls, finalFrame,
      suppressed, episode, speechRecognizer, contextState,
      resumePending>>

relayVars ==
    <<clientWs, targetWs, pendingMessages, clientSent, targetReceived,
      targetSent, clientReceived, flushed>>

vars == <<streamerVars, relayVars>>

(***************************************************************************)
(* Bounds of the model: the calls and engine events of a run, the bytes of *)
(* a chunk, the samples of a frame (this.bufferSize, 7680 in the program,   *)
(* scaled down with the sample rate so that a frame still lasts about      *)
(* 0.3 s), and the messages each end of the relay sends.                   *)
(***************************************************************************)
MaxOps == 3
MaxChunkBytes == 6
bufferSize == 2
MaxMessages == 2

(***************************************************************************)
(* Program constants, times in ticks of 50 ms.                             *)
(***************************************************************************)
SampleTicks == 3
initialBufferTime == 2
SCHEDULE_AHEAD_TIME == 4
SafetyMargin == 1
RestartDelay == 2
GainSwapDelay == 4

\* this.context.currentTime, in the frame of the present.
currentTime == 0

Max(a, b) == IF a >= b THEN a ELSE b

\* A sorted sequence of due times with one more due time.
RECURSIVE InsertDue(_, _)
InsertDue(ts, d) ==
    IF ts = <<>> THEN <<d>>
    ELSE IF d < Head(ts) THEN <<d>> \o ts
    ELSE <<Head(ts)>> \o InsertDue(Tail(ts), d)

RemoveAt(ts, i) == SubSeq(ts, 1, i - 1) \o SubSeq(ts, i + 1, Len(ts))

(***************************************************************************)
(* The bytes of the k-th chunk handed to addPCM16, n bytes long.           *)
(***************************************************************************)
ChunkBytes(k, n) == [j \in 1..n |-> (k * 67 + j * 41) % 256]

\* DataView.getInt16(offset, true): little-endian, two's complement.
GetInt16(lo, hi) ==
    LET u == lo + 256 * hi IN IF u >= 32768 THEN u - 65536 ELSE u

\* int16 / 32768 as a fraction.
Normalize(int16) == <<int16, 32768>>

\* The Float32Array addPCM16 builds from a chunk: floor(length / 2) samples;
\* the read of a trailing odd byte throws inside the loop and is swallowed.
ToFloat32(chunk) ==
    [i \in 1..(Len(chunk) \div 2) |->
        Normalize(GetInt16(chunk[2 * i - 1], chunk[2 * i]))]

\* A rebuffering that slices at most one frame off per call.
RebufferOnce(queue, buf) ==
    IF Len(buf) >= bufferSize
    THEN [audioQueue |-> Append(queue, SubSeq(buf, 1, bufferSize)),
          processingBuffer |-> SubSeq(buf, bufferSize + 1, Len(buf))]
    ELSE [audioQueue |-> queue, processingBuffer |-> buf]

\* The while loop of addPCM16: slices full frames off the processing buffer.
RECURSIVE Rebuffer(_, _)
Rebuffer(queue, buf) ==
    IF Len(buf) >= bufferSize
    THEN Rebuffer(Append(queue, SubSeq(buf, 1, bufferSize)),
                  SubSeq(buf, bufferSize + 1, Len(buf)))
    ELSE [audioQueue |-> queue, processingBuffer |-> buf]

(***************************************************************************)
(* The fields a scheduling pass reads and writes, as a record.             *)
(***************************************************************************)
Player ==
    [audioQueue |-> audioQueue, processingBuffer |-> processingBuffer,
     isPlaying |-> isPlaying, isStreamComplete |-> isStreamComplete,
     scheduledTime |-> scheduledTime,
     endOfQueueAudioSource |-> endOfQueueAudioSource,
     gainNode |-> gainNode,
     sources |-> sources, nextSourceId |-> nextSourceId,
     schedTimers |-> schedTimers, dequeued |-> dequeued,
     session |-> calls.stop]

\* A source is kept while it plays or its ended event has a handler to run:
\* the ended event of a source whose onended is null does nothing.
Pending(srcs) == {s \in srcs : s.armed \/ s.end > 0}

\* A scheduling pass that leaves the previous end of the queue armed.
DisarmNone(srcs, id) == srcs

\* endOfQueueAudioSource.onended = null
Disarm(srcs, id) ==
    Pending({IF s.id = id THEN [s EXCEPT !.armed = FALSE] ELSE s : s \in srcs})

\* A scheduling loop that takes the newest frame (pop) instead of the oldest.
RECURSIVE ScheduleLoopLifo(_)
ScheduleLoopLifo(p) ==
    IF Len(p.audioQueue) > 0
       /\ p.scheduledTime < currentTime + SCHEDULE_AHEAD_TIME
    THEN LET audioData == p.audioQueue[Len(p.audioQueue)]
             rest == SubSeq(p.audioQueue, 1, Len(p.audioQueue) - 1)
             last == Len(rest) = 0
             startTime == Max(p.scheduledTime, currentTime)
             duration == Len(audioData) * SampleTicks
             source == [id |-> p.nextSourceId, start |-> startTime,
                        end |-> startTime + duration, armed |-> last,
                        gain |-> p.gainNode, tracked |-> last,
                        session |-> p.session]
         IN ScheduleLoopLifo([p EXCEPT
                !.audioQueue = rest,
                !.sources = @ \cup {source},
                !.endOfQueueAudioSource = IF last THEN source.id ELSE @,
                !.scheduledTime = startTime + duration,
                !.nextSourceId = @ + 1,
                !.dequeued = Append(@, audioData)])
    ELSE p

\* The while loop of scheduleNextBuffer.  A source records, besides what
\* the program keeps, whether it was ever tracked as the end of the queue
\* and how many stop() calls preceded it.
RECURSIVE ScheduleLoop(_)
ScheduleLoop(p) ==
    IF Len(p.audioQueue) > 0
       /\ p.scheduledTime < currentTime + SCHEDULE_AHEAD_TIME
    THEN LET audioData == Head(p.audioQueue)
             rest == Tail(p.audioQueue)
             last == Len(rest) = 0
             startTime == Max(p.scheduledTime, currentTime)
             duration == Len(audioData) * SampleTicks
             source == [id |-> p.nextSourceId, start |-> startTime,
                        end |-> startTime + duration, armed |-> last,
                        gain |-> p.gainNode, tracked |-> last,
                        session |-> p.session]
             others == IF last /\ p.endOfQueueAudioSource # 0
                       THEN Disarm(p.sources, p.endOfQueueAudioSource)
                       ELSE p.sources
         IN ScheduleLoop([p EXCEPT
                !.audioQueue = rest,
                !.sources = others \cup {source},
                !.endOfQueueAudioSource = IF last THEN source.id ELSE @,
                !.scheduledTime = startTime + duration,
                !.nextSourceId = @ + 1,
                !.dequeued = Append(@, audioData)])
    ELSE p

\* The end of scheduleNextBuffer: stop playing, do nothing, or re-arm.
AfterLoop(p) ==
    IF Len(p.audioQueue) = 0 /\ Len(p.processingBuffer) = 0
    THEN IF p.isStreamComplete THEN [p EXCEPT !.isPlaying = FALSE] ELSE p
    ELSE [p EXCEPT !.schedTimers =
            InsertDue(@, currentTime
                + Max(0, (p.scheduledTime - currentTime) - SafetyMargin))]

ScheduleNextBuffer(p) == AfterLoop(ScheduleLoop(p))

\* Where the frame flushed by complete() is after a pass took p to q:
\* <<"queued", i>>, <<"source", id>>, or as before.
TrackFinal(ff, p, q) ==
    LET taken == Len(q.dequeued) - Len(p.dequeued) IN
    IF ff[1] = "queued"
    THEN IF ff[2] <= taken
         THEN <<"source", p.nextSourceId + ff[2] - 1>>
         ELSE <<"queued", ff[2] - taken>>
    ELSE ff

\* The flushed frame has played once its source is gone.
Settle(ff, srcs) ==
    IF ff[1] = "source" /\ ~(\E s \in srcs : s.id = ff[2])
    THEN <<"played", ff[2]>> ELSE ff

\* The assignment of a player record to the fields.
Commit(p) ==
    /\ audioQueue' = p.audioQueue
    /\ processingBuffer' = p.processingBuffer
    /\ isPlaying' = p.isPlaying
    /\ isStreamComplete' = p.isStreamComplete
    /\ scheduledTime' = p.scheduledTime
    /\ endOfQueueAudioSource' = p.endOfQueueAudioSource
    /\ sources' = p.sources
    /\ nextSourceId' = p.nextSourceId
    /\ schedTimers' = p.schedTimers
    /\ dequeued' = p.dequeued

(***************************************************************************)
(* restartRecognition(): nothing when active, else a timer of 100 ms.      *)
(***************************************************************************)
\* A restart path that never arms its timer.
RestartRecognitionNever(active, timers, now) == timers

\* A restart path without the guard on isRecognitionActive.
RestartRecognitionUnguarded(active, timers, now) ==
    InsertDue(timers, now + RestartDelay)

RestartRecognition(active, timers, now) ==
    IF active THEN timers ELSE InsertDue(timers, now + RestartDelay)

\* speechRecognizer.start() throws InvalidStateError unless the engine is idle.
StartThrows == engine # "idle"

\* The calls and engine events so far; the model bounds their number.
Ops == calls.ingest + calls.complete + calls.stop + calls.resume
        + calls.engine

\* No engine error is being responded to.
NoEpisode ==
    [kind |-> "none", undisturbed |-> FALSE, phase |-> "none", armed |-> 0,
     started |-> 0, active |-> FALSE]

Init ==
    /\ audioQueue = <<>>
    /\ processingBuffer = <<>>
    /\ isPlaying = FALSE
    /\ isStreamComplete = FALSE
    /\ scheduledTime = 0
    /\ endOfQueueAudioSource = 0
    /\ gainNode = 1
    /\ isRecognitionActive = FALSE
    /\ sources = {}
    /\ nextSourceId = 1
    /\ gainConnected = {1}
    /\ schedTimers = <<>>
    /\ swapTimers = <<>>
    /\ restartTimers = <<>>
    /\ engine = "idle"
    /\ ingested = <<>>
    /\ dequeued = <<>>
    /\ onCompleteCount = 0
    /\ startCalls = 0
    /\ uncaught = FALSE
    /\ calls = [ingest |-> 0, complete |-> 0, stop |-> 0, resume |-> 0,
                engine |-> 0, lateIngest |-> FALSE, postStop |-> FALSE]
    /\ finalFrame = <<"none", 0>>
    /\ suppressed = [call |-> FALSE, timer |-> FALSE]
    /\ episode = NoEpisode
    /\ speechRecognizer \in BOOLEAN
    /\ contextState \in {"running", "suspended"}
    /\ resumePending = FALSE
    /\ clientWs = "CONNECTING"
    /\ targetWs = "CONNECTING"
    /\ pendingMessages = <<>>
    /\ clientSent = <<>>
    /\ targetReceived = <<>>
    /\ targetSent = <<>>
    /\ clientReceived = <<>>
    /\ flushed = 0

(***************************************************************************)
(* addPCM16(chunk)                                                         *)
(***************************************************************************)
AddPCM16(n) ==
    /\ LET chunk == ChunkBytes(calls.ingest + 1, n)
           float32Array == ToFloat32(chunk)
           r == Rebuffer(audioQueue, processingBuffer \o float32Array)
           p0 == [Player EXCEPT !.audioQueue = r.audioQueue,
                                !.processingBuffer = r.processingBuffer]
           p1 == IF ~isPlaying
                 THEN ScheduleNextBuffer([p0 EXCEPT
                        !.isPlaying = TRUE,
                        !.scheduledTime = currentTime + initialBufferTime])
                 ELSE p0
       IN /\ Commit(p1)
          /\ ingested' = ingested \o float32Array
          /\ finalFrame' = IF Len(float32Array) > 0
                                /\ finalFrame[1] \in {"queued", "source"}
                             THEN <<"superseded", 0>>
                             ELSE Settle(TrackFinal(finalFrame, p0, p1),
                                         p1.sources)
    /\ IF speechRecognizer /\ ~isRecognitionActive
       THEN /\ startCalls' = startCalls + 1
            /\ isRecognitionActive' = ~StartThrows
            /\ engine' = IF StartThrows THEN engine ELSE "active"
       ELSE UNCHANGED <<startCalls, isRecognitionActive, engine>>
    /\ calls' = [calls EXCEPT !.ingest = @ + 1,
                              !.lateIngest = @ \/ calls.complete > 0,
                              !.postStop = @ \/ calls.stop > 0]
    /\ episode' = NoEpisode
    /\ UNCHANGED <<gainNode, gainConnected, swapTimers,
                   restartTimers, onCompleteCount, uncaught, suppressed>>
    /\ UNCHANGED <<contextState, resumePending>>
    /\ UNCHANGED speechRecognizer
    /\ UNCHANGED relayVars

(***************************************************************************)
(* A timer armed by scheduleNextBuffer fires.                              *)
(***************************************************************************)
ScheduleTimer(i) ==
    /\ i \in 1..Len(schedTimers)
    /\ schedTimers[i] <= currentTime
    /\ LET p0 == [Player EXCEPT !.schedTimers = RemoveAt(schedTimers, i)]
           p1 == ScheduleNextBuffer(p0)
       IN /\ Commit(p1)
          /\ finalFrame' = Settle(TrackFinal(finalFrame, p0, p1), p1.sources)
    /\ UNCHANGED <<gainNode, isRecognitionActive, gainConnected, swapTimers,
                   restartTimers, engine, ingested, onCompleteCount,
                   startCalls, uncaught, calls, suppressed, episode>>
    /\ UNCHANGED <<contextState, resumePending>>
    /\ UNCHANGED speechRecognizer
    /\ UNCHANGED relayVars

(***************************************************************************)
(* The ended event of a source, and its onended handler when still set.    *)
(***************************************************************************)
SourceEnded(s) ==
    /\ s \in sources
    /\ s.end <= currentTime
    /\ sources' = sources \ {s}
    /\ IF s.armed /\ Len(audioQueue) = 0 /\ endOfQueueAudioSource = s.id
       THEN /\ endOfQueueAudioSource' = 0
            /\ onCompleteCount' = onCompleteCount + 1
       ELSE UNCHANGED <<endOfQueueAudioSource, onCompleteCount>>
    /\ finalFrame' = Settle(finalFrame, sources \ {s})
    /\ UNCHANGED <<audioQueue, processingBuffer, isPlaying, isStreamComplete,
                   scheduledTime, gainNode, isRecognitionActive, nextSourceId,
                   gainConnected, schedTimers, swapTimers, restartTimers,
                   engine, ingested, dequeued, startCalls, uncaught, calls,
                   suppressed, episode>>
    /\ UNCHANGED <<contextState, resumePending>>
    /\ UNCHANGED speechRecognizer
    /\ UNCHANGED relayVars

(***************************************************************************)
(* complete()                                                              *)
(***************************************************************************)
\* A complete() that leaves the flushed samples in the processing buffer.
FlushBufferKept(p) ==
    [p EXCEPT !.isStreamComplete = TRUE,
              !.audioQueue = Append(@, p.processingBuffer)]

\* The processing buffer becomes the last frame of the queue.
FlushBuffer(p) ==
    [p EXCEPT !.isStreamComplete = TRUE,
              !.audioQueue = Append(@, p.processingBuffer),
              !.processingBuffer = <<>>]

\* A complete() that calls onComplete whatever the buffer holds.
CompleteFiresAlways(buf) == TRUE

\* complete() calls onComplete itself only when nothing is left to flush.
CompleteFires(buf) == Len(buf) = 0

Complete ==
    /\ IF Len(processingBuffer) > 0
       THEN LET p0 == FlushBuffer(Player)
                p1 == IF isPlaying THEN ScheduleNextBuffer(p0) ELSE p0
            IN /\ Commit(p1)
               /\ finalFrame' =
                    Settle(TrackFinal(<<"queued", Len(p0.audioQueue)>>,
                                      p0, p1), p1.sources)
       ELSE /\ isStreamComplete' = TRUE
            /\ finalFrame' = IF finalFrame[1] \in {"queued", "source"}
                             THEN <<"superseded", 0>> ELSE finalFrame
            /\ UNCHANGED <<audioQueue, processingBuffer, isPlaying,
                           scheduledTime, endOfQueueAudioSource, sources,
                           nextSourceId, schedTimers, dequeued>>
    /\ onCompleteCount' = IF CompleteFires(processingBuffer)
                          THEN onCompleteCount + 1 ELSE onCompleteCount
    /\ calls' = [calls EXCEPT !.complete = @ + 1,
                              !.postStop = @ \/ calls.stop > 0]
    /\ episode' = NoEpisode
    /\ UNCHANGED <<gainNode, isRecognitionActive, gainConnected, swapTimers,
                   restartTimers, engine, ingested, startCalls, uncaught,
                   suppressed>>
    /\ UNCHANGED <<contextState, resumePending>>
    /\ UNCHANGED speechRecognizer
    /\ UNCHANGED relayVars

(***************************************************************************)
(* stop()                                                                  *)
(***************************************************************************)
\* A stop() that leaves the processing buffer as it is.
StoppedKeepsBuffer(p) ==
    [p EXCEPT !.isPlaying = FALSE, !.isStreamComplete = TRUE,
              !.audioQueue = <<>>, !.scheduledTime = currentTime]

\* The fields stop() resets.
Stopped(p) ==
    [p EXCEPT !.isPlaying = FALSE, !.isStreamComplete = TRUE,
              !.audioQueue = <<>>, !.processingBuffer = <<>>,
              !.scheduledTime = currentTime]

Stop(stopThrows) ==
    /\ LET p == Stopped(Player)
       IN /\ isPlaying' = p.isPlaying
          /\ isStreamComplete' = p.isStreamComplete
          /\ audioQueue' = p.audioQueue
          /\ processingBuffer' = p.processingBuffer
          /\ scheduledTime' = p.scheduledTime
    /\ swapTimers' = InsertDue(swapTimers, currentTime + GainSwapDelay)
    /\ IF speechRecognizer /\ isRecognitionActive /\ ~stopThrows
       THEN /\ engine' = IF engine = "active" THEN "ending" ELSE engine
            /\ isRecognitionActive' = FALSE
       ELSE UNCHANGED <<engine, isRecognitionActive>>
    /\ ingested' = <<>>
    /\ dequeued' = <<>>
    /\ finalFrame' = IF finalFrame[1] \in {"queued", "source"}
                     THEN <<"dropped", 0>> ELSE finalFrame
    /\ calls' = [calls EXCEPT !.stop = @ + 1]
    /\ episode' = NoEpisode
    /\ UNCHANGED <<endOfQueueAudioSource, gainNode, sources, nextSourceId,
                   gainConnected, schedTimers, restartTimers, onCompleteCount,
                   startCalls, uncaught, suppressed>>
    /\ UNCHANGED <<contextState, resumePending>>
    /\ UNCHANGED speechRecognizer
    /\ UNCHANGED relayVars

\* The timer of stop(): a fresh gain stage replaces the current one.
GainSwap(i) ==
    /\ i \in 1..Len(swapTimers)
    /\ swapTimers[i] <= currentTime
    /\ swapTimers' = RemoveAt(swapTimers, i)
    /\ gainNode' = gainNode + 1
    /\ gainConnected' = (gainConnected \ {gainNode}) \cup {gainNode + 1}
    /\ UNCHANGED <<audioQueue, processingBuffer, isPlaying, isStreamComplete,
                   scheduledTime, endOfQueueAudioSource, isRecognitionActive,
                   sources, nextSourceId, schedTimers,
                   restartTimers, engine, ingested, dequeued, onCompleteCount,
                   startCalls, uncaught, calls, finalFrame,
                   suppressed, episode>>
    /\ UNCHANGED <<contextState, resumePending>>
    /\ UNCHANGED speechRecognizer
    /\ UNCHANGED relayVars

(***************************************************************************)
(* resume(): on a running context the call makes its assignments at once;  *)
(* on a suspended context it asks the context to resume and returns at the *)
(* await with nothing assigned.                                            *)
(***************************************************************************)
Resume ==
    /\ IF contextState = "suspended"
       THEN /\ resumePending' = TRUE
            /\ UNCHANGED <<isStreamComplete, scheduledTime>>
       ELSE /\ isStreamComplete' = FALSE
            /\ scheduledTime' = currentTime + initialBufferTime
            /\ UNCHANGED resumePending
    /\ calls' = [calls EXCEPT !.resume = @ + 1,
                              !.postStop = @ \/ calls.stop > 0]
    /\ UNCHANGED <<audioQueue, processingBuffer, isPlaying,
                   endOfQueueAudioSource, gainNode, isRecognitionActive,
                   sources, nextSourceId, gainConnected,
                   schedTimers, swapTimers, restartTimers, engine, ingested,
                   dequeued, onCompleteCount, startCalls, uncaught,
                   finalFrame, suppressed>>
    /\ episode' = NoEpisode
    /\ UNCHANGED contextState
    /\ UNCHANGED speechRecognizer
    /\ UNCHANGED relayVars

(***************************************************************************)
(* The context has resumed: the promise of context.resume() resolves and   *)
(* every resume() waiting for it runs on, in one turn of the event loop,   *)
(* with the same assignments.                                              *)
(***************************************************************************)
ResumeContinued ==
    /\ resumePending
    /\ resumePending' = FALSE
    /\ contextState' = "running"
    /\ isStreamComplete' = FALSE
    /\ scheduledTime' = currentTime + initialBufferTime
    /\ UNCHANGED <<audioQueue, processingBuffer, isPlaying,
                   endOfQueueAudioSource, gainNode, isRecognitionActive,
                   sources, nextSourceId, gainConnected,
                   schedTimers, swapTimers, restartTimers, engine, ingested,
                   dequeued, onCompleteCount, startCalls, uncaught, calls,
                   finalFrame, suppressed, episode>>
    /\ UNCHANGED speechRecognizer
    /\ UNCHANGED relayVars

(***************************************************************************)
(* speechRecognizer.onresult: a final result goes to handleTranscript,     *)
(* which calls logMessage, a name this module neither defines nor imports: *)
(* the ReferenceError escapes the handler.  An interim result is dropped.  *)
(***************************************************************************)
\* A result handler that reports the end of playback with a final result.
EngineResultCompletes(isFinal) ==
    /\ engine \in {"active", "ending"}
    /\ uncaught' = (uncaught \/ isFinal)
    /\ onCompleteCount' = IF isFinal THEN onCompleteCount + 1
                          ELSE onCompleteCount
    /\ UNCHANGED <<audioQueue, processingBuffer, isPlaying, isStreamComplete,
                   scheduledTime, endOfQueueAudioSource, gainNode,
                   isRecognitionActive, sources, nextSourceId, gainConnected,
                   schedTimers, swapTimers, restartTimers, engine, ingested,
                   dequeued, startCalls, calls, finalFrame,
                   suppressed, episode>>
    /\ UNCHANGED <<contextState, resumePending>>
    /\ UNCHANGED speechRecognizer
    /\ UNCHANGED relayVars

EngineResult(isFinal) ==
    /\ engine \in {"active", "ending"}
    /\ uncaught' = (uncaught \/ isFinal)
    /\ UNCHANGED <<audioQueue, processingBuffer, isPlaying, isStreamComplete,
                   scheduledTime, endOfQueueAudioSource, gainNode,
                   isRecognitionActive, sources, nextSourceId, gainConnected,
                   schedTimers, swapTimers, restartTimers, engine, ingested,
                   dequeued, onCompleteCount, startCalls, calls, finalFrame,
                   suppressed, episode>>
    /\ UNCHANGED <<contextState, resumePending>>
    /\ UNCHANGED speechRecognizer
    /\ UNCHANGED relayVars

(***************************************************************************)
(* speechRecognizer.onerror: the engine reports an error and will end.     *)
(***************************************************************************)
EngineError(noSpeech) ==
    /\ engine = "active"
    /\ engine' = "ending"
    /\ restartTimers' =
         IF noSpeech
         THEN RestartRecognition(isRecognitionActive, restartTimers,
                                 currentTime)
         ELSE restartTimers
    /\ isRecognitionActive' = FALSE
    /\ calls' = [calls EXCEPT !.engine = @ + 1]
    /\ suppressed' = [suppressed EXCEPT
                        !.call = @ \/ (noSpeech /\ isRecognitionActive)]
    /\ episode' = [kind |-> IF noSpeech THEN "no-speech" ELSE "other",
                   undisturbed |-> /\ isPlaying /\ ~isStreamComplete
                                   /\ restartTimers = <<>>,
                   phase |-> "error",
                   armed |-> Len(restartTimers') - Len(restartTimers),
                   started |-> 0, active |-> FALSE]
    /\ UNCHANGED <<audioQueue, processingBuffer, isPlaying, isStreamComplete,
                   scheduledTime, endOfQueueAudioSource, gainNode,
                   sources, nextSourceId, gainConnected,
                   schedTimers, swapTimers, ingested, dequeued,
                   onCompleteCount, startCalls, uncaught, finalFrame>>
    /\ UNCHANGED <<contextState, resumePending>>
    /\ UNCHANGED speechRecognizer
    /\ UNCHANGED relayVars

(***************************************************************************)
(* speechRecognizer.onend: the engine has stopped listening.               *)
(***************************************************************************)
EngineEnd ==
    /\ engine \in {"active", "ending"}
    /\ engine' = "idle"
    /\ isRecognitionActive' = FALSE
    /\ restartTimers' =
         IF isPlaying /\ ~isStreamComplete
         THEN RestartRecognition(FALSE, restartTimers, currentTime)
         ELSE restartTimers
    /\ calls' = [calls EXCEPT
                   !.engine = IF engine = "active" THEN @ + 1 ELSE @]
    /\ episode' =
         IF engine = "ending" /\ episode.kind # "none"
         THEN [episode EXCEPT
                 !.phase = IF @ = "error" THEN "ended" ELSE @,
                 !.armed = @ + Len(restartTimers') - Len(restartTimers)]
         ELSE NoEpisode
    /\ UNCHANGED <<audioQueue, processingBuffer, isPlaying, isStreamComplete,
                   scheduledTime, endOfQueueAudioSource, gainNode,
                   sources, nextSourceId, gainConnected,
                   schedTimers, swapTimers, ingested, dequeued,
                   onCompleteCount, startCalls, uncaught, finalFrame,
                   suppressed>>
    /\ UNCHANGED <<contextState, resumePending>>
    /\ UNCHANGED speechRecognizer
    /\ UNCHANGED relayVars

(***************************************************************************)
(* The timer of restartRecognition() fires.                                *)
(***************************************************************************)
RestartTimer(i) ==
    /\ i \in 1..Len(restartTimers)
    /\ restartTimers[i] <= currentTime
    /\ restartTimers' = RemoveAt(restartTimers, i)
    /\ IF ~isRecognitionActive
       THEN /\ startCalls' = startCalls + 1
            /\ isRecognitionActive' = ~StartThrows
            /\ engine' = IF StartThrows THEN engine ELSE "active"
            /\ uncaught' = (uncaught \/ StartThrows)
       ELSE UNCHANGED <<startCalls, isRecognitionActive, engine, uncaught>>
    /\ suppressed' = [suppressed EXCEPT !.timer = @ \/ isRecognitionActive]
    /\ episode' =
         IF episode.phase \in {"error", "ended"} /\ ~isRecognitionActive
         THEN [episode EXCEPT !.phase = "restarted", !.started = @ + 1,
                              !.active = isRecognitionActive']
         ELSE episode
    /\ UNCHANGED <<audioQueue, processingBuffer, isPlaying, isStreamComplete,
                   scheduledTime, endOfQueueAudioSource, gainNode,
                   sources, nextSourceId, gainConnected,
                   schedTimers, swapTimers, ingested, dequeued,
                   onCompleteCount, calls, finalFrame>>
    /\ UNCHANGED <<contextState, resumePending>>
    /\ UNCHANGED speechRecognizer
    /\ UNCHANGED relayVars

(***************************************************************************)
(* Time advances by one tick: every stored time comes one tick closer, and *)
(* stays at 0 once it is past.  The clock of a suspended context stands    *)
(* still (scheduledTime and the sources keep their distance from           *)
(* currentTime) while the timers of setTimeout go on.                      *)
(***************************************************************************)
Sooner(t) == Max(0, t - 1)

SoonerAll(ts) == [i \in 1..Len(ts) |-> Sooner(ts[i])]

Tick ==
    /\ schedTimers' = SoonerAll(schedTimers)
    /\ swapTimers' = SoonerAll(swapTimers)
    /\ restartTimers' = SoonerAll(restartTimers)
    /\ IF contextState = "running"
       THEN /\ scheduledTime' = Sooner(scheduledTime)
            /\ sources' = Pending({[s EXCEPT !.start = Sooner(@),
                                             !.end = Sooner(@)] :
                                     s \in sources})
       ELSE UNCHANGED <<scheduledTime, sources>>
    /\ finalFrame' = Settle(finalFrame, sources')
    /\ UNCHANGED <<audioQueue, processingBuffer, isPlaying, isStreamComplete,
                   endOfQueueAudioSource, gainNode, isRecognitionActive,
                   nextSourceId, gainConnected, engine, ingested, dequeued,
                   onCompleteCount, startCalls, uncaught, calls, suppressed,
                   episode>>
    /\ UNCHANGED <<contextState, resumePending>>
    /\ UNCHANGED speechRecognizer
    /\ UNCHANGED relayVars

\* The steps of a run of at most budget calls, engine errors and engine
\* ends, with chunks of the given lengths.
Run(budget, lengths) ==
    \/ \E n \in lengths : Ops < budget /\ AddPCM16(n)
    \/ \E i \in 1..Len(schedTimers) : ScheduleTimer(i)
    \/ \E s \in sources : SourceEnded(s)
    \/ Ops < budget /\ Complete
    \/ \E stopThrows \in BOOLEAN : Ops < budget /\ Stop(stopThrows)
    \/ \E i \in 1..Len(swapTimers) : GainSwap(i)
    \/ Ops < budget /\ Resume
    \/ ResumeContinued
    \/ \E noSpeech \in BOOLEAN : Ops < budget /\ EngineError(noSpeech)
    \/ \E isFinal \in BOOLEAN : EngineResult(isFinal)
    \/ (engine = "active" => Ops < budget) /\ EngineEnd
    \/ \E i \in 1..Len(restartTimers) : RestartTimer(i)
    \/ Tick

Next == Run(MaxOps, 0..MaxChunkBytes)

Spec == Init /\ [][Next]_vars

(***************************************************************************)
(* The recognition side channel over longer runs: one more call or engine  *)
(* event, with chunks that are empty or one frame and one sample.          *)
(***************************************************************************)
NextRecognition == Run(MaxOps + 1, {0, 2 * bufferSize + 2})

SpecRecognition == Init /\ [][NextRecognition]_vars

(***************************************************************************)
(* The relay of handleWebSocket (src/index.js): clientWs is the upgraded   *)
(* socket of the browser, targetWs the socket to the remote endpoint.  A   *)
(* socket event and its handler are one action.                            *)
(***************************************************************************)
\* A clientWs.onmessage that drops what arrives before targetWs is open.
RelayMessageDropsEarly(readyState, sent, pending, data) ==
    IF readyState = "OPEN"
    THEN [sent |-> Append(sent, data), pending |-> pending]
    ELSE [sent |-> sent, pending |-> pending]

\* clientWs.onmessage: send to an open targetWs, else queue.
RelayMessage(readyState, sent, pending, data) ==
    IF readyState = "OPEN"
    THEN [sent |-> Append(sent, data), pending |-> pending]
    ELSE [sent |-> sent, pending |-> Append(pending, data)]

\* The upgraded socket opens once the response is served; no handler is set.
ClientOpen ==
    /\ clientWs = "CONNECTING"
    /\ clientWs' = "OPEN"
    /\ UNCHANGED <<targetWs, pendingMessages, clientSent, targetReceived,
                   targetSent, clientReceived, flushed>>
    /\ UNCHANGED streamerVars

\* targetWs.onopen: the queued messages are sent in order, the queue emptied.
TargetOpen ==
    /\ targetWs = "CONNECTING"
    /\ targetWs' = "OPEN"
    /\ targetReceived' = targetReceived \o pendingMessages
    /\ flushed' = flushed + Len(pendingMessages)
    /\ pendingMessages' = <<>>
    /\ UNCHANGED <<clientWs, clientSent, targetSent, clientReceived>>
    /\ UNCHANGED streamerVars

\* clientWs.onmessage
ClientMessage(data) ==
    /\ clientWs = "OPEN"
    /\ clientSent' = Append(clientSent, data)
    /\ LET r == RelayMessage(targetWs, targetReceived, pendingMessages, data)
       IN /\ targetReceived' = r.sent
          /\ pendingMessages' = r.pending
    /\ UNCHANGED <<clientWs, targetWs, targetSent, clientReceived, flushed>>
    /\ UNCHANGED streamerVars

\* targetWs.onmessage: send to an open clientWs, else drop.
TargetMessage(data) ==
    /\ targetWs = "OPEN"
    /\ targetSent' = Append(targetSent, data)
    /\ clientReceived' = IF clientWs = "OPEN"
                         THEN Append(clientReceived, data)
                         ELSE clientReceived
    /\ UNCHANGED <<clientWs, targetWs, pendingMessages, clientSent,
                   targetReceived, flushed>>
    /\ UNCHANGED streamerVars

\* clientWs.onclose: the client socket is closed (by the browser, by a
\* failure, or at the end of the close this relay began); an open targetWs
\* is asked to close.
ClientClose ==
    /\ clientWs # "CLOSED"
    /\ clientWs' = "CLOSED"
    /\ targetWs' = IF targetWs = "OPEN" THEN "CLOSING" ELSE targetWs
    /\ UNCHANGED <<pendingMessages, clientSent, targetReceived, targetSent,
                   clientReceived, flushed>>
    /\ UNCHANGED streamerVars

\* targetWs.onclose: the remote socket is closed (by the remote end, by a
\* failed connection, or at the end of the close this relay began); an open
\* clientWs is asked to close.
TargetClose ==
    /\ targetWs # "CLOSED"
    /\ targetWs' = "CLOSED"
    /\ clientWs' = IF clientWs = "OPEN" THEN "CLOSING" ELSE clientWs
    /\ UNCHANGED <<pendingMessages, clientSent, targetReceived, targetSent,
                   clientReceived, flushed>>
    /\ UNCHANGED streamerVars

NextRelay ==
    \/ ClientOpen
    \/ TargetOpen
    \/ \E data \in 1..MaxMessages :
            Len(clientSent) < MaxMessages /\ ClientMessage(data)
    \/ \E data \in 1..MaxMessages :
            Len(targetSent) < MaxMessages /\ TargetMessage(data)
    \/ ClientClose
    \/ TargetClose

SpecRelay == Init /\ [][NextRelay]_vars

\* What the runtime is bound to do: a socket that is connecting opens or
\* fails, and a close that was begun ends.  The peers are bound to nothing.
RelayFairness ==
    /\ WF_vars(ClientOpen)
    /\ WF_vars(targetWs = "CONNECTING" /\ (TargetOpen \/ TargetClose))
    /\ WF_vars(clientWs = "CLOSING" /\ ClientClose)
    /\ WF_vars(targetWs = "CLOSING" /\ TargetClose)

SpecRelayFair == SpecRelay /\ RelayFairness

(***************************************************************************)
(* Properties.                                                             *)
(***************************************************************************)
\* The samples of a sequence of frames, in order.
RECURSIVE Flatten(_)
Flatten(fs) == IF fs = <<>> THEN <<>> ELSE Head(fs) \o Flatten(Tail(fs))

\* Sources that have not finished playing.
Playing == {s \in sources : s.end > 0}

\* A run of addPCM16 calls followed by at most one complete(), no stop().
IngestThenComplete ==
    /\ calls.stop = 0
    /\ calls.resume = 0
    /\ calls.complete <= 1
    /\ ~calls.lateIngest

\* C1: in a run of addPCM16 calls followed by one complete() and no stop(),
\* onComplete is invoked exactly once: never before complete(), at most once
\* after it, only when every frame has been scheduled and has finished
\* playing, and once nothing is left pending it has been invoked.
C1_ExactlyOnceAfterLastFrame ==
    IngestThenComplete =>
        /\ onCompleteCount <= calls.complete
        /\ onCompleteCount = 1 => (audioQueue = <<>> /\ Playing = {})
        /\ (calls.complete = 1 /\ audioQueue = <<>> /\ sources = {}
                /\ schedTimers = <<>>) => onCompleteCount = 1

\* C2: whenever onComplete is invoked, isStreamComplete is true, the frame
\* queue and the accumulation buffer are empty and no scheduled source is
\* still pending or playing.
C2_OnCompleteOnlyWhenAllPlayed ==
    [][onCompleteCount' > onCompleteCount =>
            /\ isStreamComplete'
            /\ audioQueue' = <<>>
            /\ processingBuffer' = <<>>
            /\ \A s \in sources' : s.end = 0]_vars

\* C3: whenever a handler returns with frames in the queue, a scheduling
\* pass is armed (so no state has queued frames, isPlaying true and no pass
\* pending).
C3_PassArmedWhileFramesQueued ==
    audioQueue # <<>> => schedTimers # <<>>

\* C4: the frames dequeued so far, then the queued frames, then the
\* accumulation buffer, are the samples ingested so far, in ingestion order.
C4_FifoOrder ==
    Flatten(dequeued) \o Flatten(audioQueue) \o processingBuffer = ingested

C4_Witness ==
    /\ calls.stop = 0
    /\ Len(dequeued) >= 2
    /\ Len(audioQueue) >= 1
    /\ Len(processingBuffer) >= 1

\* C5: after addPCM16 calls carrying S samples in total (no complete(), no
\* stop()), floor(S / bufferSize) frames have been enqueued, each of
\* bufferSize samples, and the accumulation buffer holds S mod bufferSize
\* samples, fewer than bufferSize.
C5_Chunking ==
    (calls.complete = 0 /\ calls.stop = 0) =>
        LET S == Len(ingested)
            frames == dequeued \o audioQueue
        IN /\ Len(frames) = S \div bufferSize
           /\ \A i \in 1..Len(frames) : Len(frames[i]) = bufferSize
           /\ Len(processingBuffer) = S % bufferSize
           /\ Len(processingBuffer) < bufferSize

C5_Witness ==
    /\ calls.complete = 0
    /\ calls.stop = 0
    /\ calls.ingest >= 2
    /\ Len(ingested) >= 3 * bufferSize + 1
    /\ Len(audioQueue) >= 2

\* C6: the samples in the queued frames plus those in the accumulation
\* buffer are the samples ingested since the last stop() minus the samples
\* of the frames dequeued since that stop().
C6_SampleConservation ==
    Len(Flatten(audioQueue)) + Len(processingBuffer)
        = Len(ingested) - Len(Flatten(dequeued))

C6_Witness ==
    /\ calls.stop >= 1
    /\ calls.complete >= 1
    /\ Len(dequeued) >= 1
    /\ Len(ingested) >= 1

\* A scheduling pass ran in this step: it emptied the queue of a complete
\* stream and stopped playing, or it armed its timer again.
PassRan ==
    \/ audioQueue' = <<>> /\ processingBuffer' = <<>> /\ ~isPlaying'
    \/ Len(schedTimers') = Len(schedTimers) + 1

\* C7: complete() with a non-empty accumulation buffer appends exactly one
\* frame holding the buffered samples, empties the buffer, runs a scheduling
\* pass and does not invoke onComplete; and onComplete is not invoked while
\* that final frame is still queued or playing.
C7_CompleteFlushesFinalFrame ==
    [][/\ (calls'.complete = calls.complete + 1 /\ processingBuffer # <<>>) =>
            /\ processingBuffer' = <<>>
            /\ dequeued' \o audioQueue'
                 = dequeued \o Append(audioQueue, processingBuffer)
            /\ PassRan
            /\ onCompleteCount' = onCompleteCount
       /\ onCompleteCount' > onCompleteCount =>
            finalFrame'[1] \notin {"queued", "source"}]_vars

C7_Witness ==
    /\ finalFrame[1] = "played"
    /\ onCompleteCount = 1
    /\ calls.ingest >= 1

\* A session that is already stopped.
AlreadyStopped ==
    /\ ~isPlaying
    /\ isStreamComplete
    /\ audioQueue = <<>>
    /\ processingBuffer = <<>>

\* C8: stop() raises no error in any state, leaves the frame queue and the
\* accumulation buffer empty and isPlaying false, and invokes no onComplete;
\* on a session already stopped it changes none of isPlaying, the queue,
\* the buffer and isStreamComplete.
C8_StopSafeAndIdempotent ==
    [][calls'.stop = calls.stop + 1 =>
            /\ uncaught' = uncaught
            /\ audioQueue' = <<>>
            /\ processingBuffer' = <<>>
            /\ ~isPlaying'
            /\ onCompleteCount' = onCompleteCount
            /\ AlreadyStopped =>
                    /\ isPlaying' = isPlaying
                    /\ isStreamComplete' = isStreamComplete
                    /\ audioQueue' = audioQueue
                    /\ processingBuffer' = processingBuffer]_vars

C8_Witness ==
    /\ calls.stop = 2
    /\ calls.ingest = 1
    /\ sources # {}
    /\ AlreadyStopped

\* A run of addPCM16 calls, at most one complete(), then one stop().
EndedByStop ==
    /\ calls.stop = 1
    /\ calls.ingest >= 1
    /\ calls.complete <= 1
    /\ ~calls.lateIngest
    /\ ~calls.postStop

\* C9: in a session ended by stop(), onComplete is invoked exactly once over
\* the whole run: never twice, and once when no scheduled source is left.
C9_ExactlyOnceWhenStopped ==
    EndedByStop =>
        /\ onCompleteCount <= 1
        /\ sources = {} => onCompleteCount = 1

\* C10: the restart path called while isRecognitionActive is true arms no
\* restart timer and does not invoke start(); a restart timer that fires
\* while isRecognitionActive is true does not invoke start() either.
C10_RestartSuppressed ==
    [][/\ (EngineError(TRUE) /\ isRecognitionActive) =>
            /\ restartTimers' = restartTimers
            /\ startCalls' = startCalls
       /\ ((\E i \in 1..Len(restartTimers) : RestartTimer(i))
                /\ isRecognitionActive) =>
            /\ startCalls' = startCalls
            /\ engine' = engine
            /\ isRecognitionActive']_vars

C10_Witness ==
    /\ suppressed.call
    /\ suppressed.timer
    /\ isRecognitionActive

\* C11: the engine's start operation is never invoked while the engine is
\* still listening (started, its end event not yet delivered), and at most
\* one restart timer is pending at a time.
C11_NeverStartedWhileListening ==
    [][/\ startCalls' > startCalls => engine = "idle"
       /\ Len(restartTimers') <= 1]_vars

\* An engine reported no-speech while playing, the stream not complete and
\* no restart pending, and no call was made since.
NoSpeechWhilePlaying ==
    episode.kind = "no-speech" /\ episode.undisturbed

\* C12: after a no-speech error while isPlaying is true and the stream is
\* not complete, exactly one restart timer is armed (by the end event that
\* follows the error), it is due after the restart delay, and when it fires
\* start() is invoked exactly once and isRecognitionActive is true.
C12_NoSpeechRestartsOnce ==
    [][NoSpeechWhilePlaying' =>
            /\ episode'.armed <= 1
            /\ episode'.started <= 1
            /\ episode'.phase = "error" => episode'.started = 0
            /\ (episode.phase = "error" /\ episode'.phase = "ended") =>
                    restartTimers' = <<currentTime + RestartDelay>>
            /\ episode'.phase = "ended" =>
                    /\ episode'.armed = 1
                    /\ episode'.started = 0
                    /\ Len(restartTimers') = 1
            /\ episode'.phase = "restarted" =>
                    /\ episode'.armed = 1
                    /\ episode'.started = 1
                    /\ episode'.active
                    /\ restartTimers' = <<>>]_vars

C12_Witness ==
    /\ NoSpeechWhilePlaying
    /\ episode.phase = "restarted"
    /\ isRecognitionActive
    /\ engine = "active"
    /\ isPlaying

\* C13: after an error other than no-speech, and until the next call, no
\* restart timer is armed (not by the end event that follows either), no
\* restart timer starts the engine and isRecognitionActive stays false.
C13_HardFailureLeavesInactive ==
    episode.kind = "other" =>
        /\ episode.armed = 0
        /\ episode.started = 0
        /\ ~isRecognitionActive

\* A step of the recognition side: no call is made, and the engine, the
\* flag, the restart timers, the starts or the escaped exceptions change.
RecognitionStep ==
    /\ calls'.ingest = calls.ingest
    /\ calls'.complete = calls.complete
    /\ calls'.stop = calls.stop
    /\ calls'.resume = calls.resume
    /\ \/ engine' # engine
       \/ isRecognitionActive' # isRecognitionActive
       \/ Len(restartTimers') # Len(restartTimers)
       \/ startCalls' # startCalls
       \/ uncaught' # uncaught

\* C14: a recognition event (result, error, end, restart timer) leaves the
\* frame queue, the accumulation buffer, scheduledTime, isPlaying,
\* isStreamComplete and the armed scheduling timers unchanged and invokes
\* no onComplete; an addPCM16 whose start() fails still ingests its chunk,
\* and a stop() whose engine stop fails still stops playback.
C14_RecognitionIsolated ==
    [][/\ RecognitionStep =>
            /\ UNCHANGED <<audioQueue, processingBuffer, scheduledTime,
                           isPlaying, isStreamComplete, schedTimers>>
            /\ onCompleteCount' = onCompleteCount
       /\ (calls'.ingest = calls.ingest + 1 /\ ~isRecognitionActive
                /\ StartThrows) =>
            /\ \E n \in 0..MaxChunkBytes :
                    ingested' = ingested
                        \o ToFloat32(ChunkBytes(calls.ingest + 1, n))
            /\ Flatten(dequeued') \o Flatten(audioQueue')
                    \o processingBuffer' = ingested'
            /\ uncaught' = uncaught
       /\ (calls'.stop = calls.stop + 1 /\ isRecognitionActive
                /\ isRecognitionActive') =>
            /\ audioQueue' = <<>>
            /\ processingBuffer' = <<>>
            /\ ~isPlaying'
            /\ onCompleteCount' = onCompleteCount
            /\ uncaught' = uncaught]_vars

C14_Witness ==
    /\ uncaught
    /\ episode.phase = "restarted"
    /\ schedTimers # <<>>
    /\ processingBuffer # <<>>
    /\ Playing # {}

\* C15: start() is not invoked while isRecognitionActive is true; a start()
\* that succeeds leaves isRecognitionActive true; a start() that fails, in
\* addPCM16 or in the restart timer, lets no exception escape and leaves
\* isRecognitionActive false.
C15_StartFailuresSwallowed ==
    [][/\ isRecognitionActive => startCalls' = startCalls
       /\ (startCalls' > startCalls /\ ~StartThrows) => isRecognitionActive'
       /\ (startCalls' > startCalls /\ StartThrows) =>
            /\ uncaught' = uncaught
            /\ ~isRecognitionActive']_vars

\* C17: the messages passed to targetWs.send, then the queued messages, are
\* the messages the client sent, each once and in order (so the queued
\* ones go first and none is dropped); nothing is sent while targetWs is
\* connecting, and nothing stays queued while targetWs is open.
C17_ClientMessagesRelayedInOrder ==
    /\ targetReceived \o pendingMessages = clientSent
    /\ targetWs = "CONNECTING" => targetReceived = <<>>
    /\ targetWs = "OPEN" => pendingMessages = <<>>
    /\ flushed <= Len(targetReceived)

C17_Witness ==
    /\ targetWs = "OPEN"
    /\ flushed >= 1
    /\ Len(targetReceived) > flushed
    /\ targetReceived = clientSent

\* C18: when one socket of the relay is closed the other one is eventually
\* closed too, whatever state it was in.
C18_ClosePropagates ==
    /\ (clientWs = "CLOSED") ~> (targetWs = "CLOSED")
    /\ (targetWs = "CLOSED") ~> (clientWs = "CLOSED")

\* C16: stop() called while isRecognitionActive is true lets no exception
\* escape and leaves isRecognitionActive false, also when the engine's stop
\* operation fails.
C16_StopLeavesRecognitionInactive ==
    [][(calls'.stop = calls.stop + 1 /\ isRecognitionActive) =>
            /\ ~isRecognitionActive'
            /\ uncaught' = uncaught]_vars
\* C19: isPlaying does not become false, other than by stop(), while a
\* scheduled frame is still pending or playing.
C19_PlayingUntilLastFrameEnds ==
    [][(isPlaying /\ ~isPlaying' /\ calls'.stop = calls.stop) =>
            {s \in sources' : s.end > currentTime} = {}]_vars

\* The sources created in this step.
Scheduled == {s \in sources' : s.id >= nextSourceId}

\* C20: while isPlaying is true no operation lowers scheduledTime; the
\* frames scheduled in a step start at max(scheduledTime, currentTime),
\* follow one another without gap and leave scheduledTime at the end of the
\* last one; and the sources of a session without stop() never overlap.
C20_ScheduledTimeMonotonic ==
    [][/\ (isPlaying /\ isPlaying' /\ ~Tick) =>
            scheduledTime' >= scheduledTime
       /\ (isPlaying /\ Scheduled # {}) =>
            /\ \E s \in Scheduled :
                    /\ s.id = nextSourceId
                    /\ s.start = Max(scheduledTime, currentTime)
            /\ \A s \in Scheduled :
                    \/ s.id + 1 = nextSourceId' /\ s.end = scheduledTime'
                    \/ \E t \in Scheduled :
                            t.id = s.id + 1 /\ t.start = s.end
       /\ calls'.stop = 0 =>
            \A s, t \in sources' :
                s.id # t.id => (s.end <= t.start \/ t.end <= s.start)]_vars

\* C21: at most one source has an armed end-of-queue notification, and it
\* is the tracked one: scheduling a frame that empties the queue disarms
\* the source tracked before; and the end of a source invokes onComplete
\* only if that source is armed and still tracked and the queue is empty.
C21_SingleArmedNotification ==
    [][/\ Cardinality({s \in sources' : s.armed}) <= 1
       /\ \A s \in sources' : s.armed => s.id = endOfQueueAudioSource'
       /\ (onCompleteCount' > onCompleteCount
                /\ calls'.complete = calls.complete) =>
            /\ audioQueue = <<>>
            /\ endOfQueueAudioSource' = 0
            /\ \E s \in sources \ sources' :
                    s.armed /\ s.id = endOfQueueAudioSource]_vars

C21_Witness ==
    \E s, t \in sources :
        /\ s.tracked /\ ~s.armed /\ s.end > currentTime
        /\ t.armed /\ t.id = endOfQueueAudioSource

\* C22: a source scheduled after a stop(), with no stop() since, is
\* connected to a gain stage that stays connected to the output for as
\* long as the source has not finished playing.
C22_GainSwapSparesLaterSession ==
    \A s \in sources :
        (s.session >= 1 /\ s.session = calls.stop /\ s.end > currentTime)
            => s.gain \in gainConnected

\* C23: after stop() and until the next addPCM16, start() is not invoked
\* and isRecognitionActive does not become true (checked while no call
\* other than stop() follows the first stop()).
C23_NoRestartAfterStop ==
    [][(calls.stop >= 1 /\ ~calls.postStop
            /\ calls'.ingest = calls.ingest) =>
            /\ startCalls' = startCalls
            /\ isRecognitionActive' => isRecognitionActive]_vars

\* C24: at most one timer of scheduleNextBuffer is pending at any time.
C24_SingleSchedulingTimer ==
    Len(schedTimers) <= 1

====
